---- MODULE Spec2Model ----
(***************************************************************************)
(* Model of internal/pathtrie/pathtrie.go: a path trie whose segments may  *)
(* be parameter placeholders.  Strings are sequences of one-character      *)
(* strings, so that strings.Split and strings.Join are computed.           *)
(*                                                                         *)
(* The trie is a function from a node's chain of map keys (root to node)   *)
(* to the node's fields; a node's Children map is the set of chains one    *)
(* key longer than its own.                                                *)
(***************************************************************************)
EXTENDS Naturals, Sequences, FiniteSets, TLC

\* Bound of the model: the number of Insert/InsertMerge calls of a run.
MaxInserts == 2

\* The nil interface value; the other values are positive numbers.
Nil == 0

Values == {Nil, 1, 2}

\* The separators NewWithPathSeparator is called with, besides New's "/".
Separators == {<<".">>, <<>>}

\* ------------------------------------------------------------- strings

\* strings.Join
RECURSIVE Join(_, _)
Join(elems, sep) ==
    IF Len(elems) = 0 THEN <<>>
    ELSE IF Len(elems) = 1 THEN elems[1]
    ELSE elems[1] \o sep \o Join(Tail(elems), sep)

HasPrefixAt(s, i, sep) ==
    /\ i + Len(sep) - 1 <= Len(s)
    /\ \A k \in 1..Len(sep) : s[i + k - 1] = sep[k]

\* strings.Index from position i on; 0 when sep does not occur.
RECURSIVE Index(_, _, _)
Index(s, sep, i) ==
    IF i + Len(sep) - 1 > Len(s) THEN 0
    ELSE IF HasPrefixAt(s, i, sep) THEN i
    ELSE Index(s, sep, i + 1)

\* strings.Split: an empty separator explodes s into its characters (no
\* element at all for the empty string); otherwise s is cut at every
\* occurrence of sep, left to right.
RECURSIVE Split(_, _)
Split(s, sep) ==
    IF sep = <<>> THEN [i \in 1..Len(s) |-> <<s[i]>>]
    ELSE LET m == Index(s, sep, 1)
         IN  IF m = 0 THEN <<s>>
             ELSE <<SubSeq(s, 1, m - 1)>> \o Split(SubSeq(s, m + Len(sep), Len(s)), sep)

\* util.IsPathParam: a segment wrapped in braces.
IsPathParam(segment) ==
    /\ Len(segment) >= 1
    /\ segment[1] = "{"
    /\ segment[Len(segment)] = "}"

\* util.IsNil
IsNil(v) == v = Nil

\* ------------------------------------------------------------- inputs

\* Segments the input paths are written with, and "/" between them.
E == <<>>
A == <<"a">>
B == <<"b">>
X == <<"{", "x", "}">>
Y == <<"{", "y", "}">>
P(segs) == Join(segs, <<"/">>)

\* "", "a", "{x}", "a/", "a/a", "{x}/a", "{x}/{y}", "/a/{x}"
InsertPaths ==
    {P(<<E>>), P(<<A>>), P(<<X>>), P(<<A, E>>), P(<<A, A>>),
     P(<<X, A>>), P(<<X, Y>>), P(<<E, A, X>>)}

\* Lookups also ask for "b", "a/b", "b/a", "/a/b".
LookupPaths ==
    InsertPaths \cup {P(<<B>>), P(<<A, B>>), P(<<B, A>>), P(<<E, A, B>>)}

MergeFns == {"concat"}

\* PathSeparator and Trie are the fields of the PathTrie.  ins and res are
\* the last insertion and the query made after it, with what they returned;
\* inserted and terminated are the paths inserted so far and the chains of
\* segments they split into; nInserts counts the insertions.
VARIABLES PathSeparator, Trie, ins, res, inserted, terminated, nInserts

vars == <<PathSeparator, Trie, ins, res, inserted, terminated, nInserts>>

NoOp == [op |-> "none"]

\* ------------------------------------------------------------- insertion

\* countPathParam leaving out the node's own segment.
countPathParamAncestors(segments) ==
    Cardinality({i \in 1..(Len(segments) - 1) : IsPathParam(segments[i])})

countPathParam(segments) ==
    Cardinality({i \in 1..Len(segments) : IsPathParam(segments[i])})

\* createPathTrieNode without the isLastSegment test.
createPathTrieNodeAlwaysValue(segments, idx, isLastSegment, val, sep) ==
    LET fullPathSegments == SubSeq(segments, 1, idx + 1)
    IN  [Name             |-> segments[idx + 1],
         FullPath         |-> Join(fullPathSegments, sep),
         PathParamCounter |-> countPathParam(fullPathSegments),
         Value            |-> val]

createPathTrieNode(segments, idx, isLastSegment, val, sep) ==
    LET fullPathSegments == SubSeq(segments, 1, idx + 1)
    IN  [Name             |-> segments[idx + 1],
         FullPath         |-> Join(fullPathSegments, sep),
         PathParamCounter |-> countPathParam(fullPathSegments),
         Value            |-> IF isLastSegment THEN val ELSE Nil]

\* Insert's closure assigning the wrong way round (*newV = *existing).
MergeApplyKeepsExisting(merge, existing, newV) ==
    IF merge = "overwrite" THEN existing
    ELSE IF existing = Nil THEN newV
    ELSE IF newV = Nil THEN existing
    ELSE existing * 10 + newV

\* A ValueMergeFunc applied to (&existing, &newV): the value it leaves in
\* the existing slot.
MergeApply(merge, existing, newV) ==
    IF merge = "overwrite" THEN newV
    ELSE IF existing = Nil THEN newV
    ELSE IF newV = Nil THEN existing
    ELSE existing * 10 + newV

\* The flag taken after merge ran instead of before it.
MergeExistingFlagAfter(node, val, merge, calls) ==
    [node      |-> [node EXCEPT !.Value = MergeApply(merge, node.Value, val)],
     isNewPath |-> IsNil(MergeApply(merge, node.Value, val)),
     calls     |-> Append(calls, <<node.Value, val>>)]

\* The existing value overwritten without calling merge.
MergeExistingNoCall(node, val, merge, calls) ==
    [node      |-> [node EXCEPT !.Value = val],
     isNewPath |-> IsNil(node.Value),
     calls     |-> calls]

\* InsertMerge at the last segment when its node exists: the flag is taken
\* from the node's value, then merge is called on (&node.Value, &val).
\* calls lists the arguments of each call of merge.
MergeExisting(node, val, merge, calls) ==
    [node      |-> [node EXCEPT !.Value = MergeApply(merge, node.Value, val)],
     isNewPath |-> IsNil(node.Value),
     calls     |-> Append(calls, <<node.Value, val>>)]

\* The loop of InsertMerge from index idx on.  The map the code's cursor
\* points at is the Children of the chain segments[:idx].
RECURSIVE InsertLoop(_, _, _, _, _, _)
InsertLoop(st, segments, idx, val, merge, sep) ==
    IF idx >= Len(segments) THEN st
    ELSE
      LET isLastSegment == idx = Len(segments) - 1
          key == SubSeq(segments, 1, idx + 1)
      IN  IF key \in DOMAIN st.Trie
          THEN IF isLastSegment
               THEN LET u == MergeExisting(st.Trie[key], val, merge, st.calls)
                    IN  InsertLoop(
                          [Trie |-> [st.Trie EXCEPT ![key] = u.node],
                           isNewPath |-> u.isNewPath,
                           calls |-> u.calls],
                          segments, idx + 1, val, merge, sep)
               ELSE InsertLoop(st, segments, idx + 1, val, merge, sep)
          ELSE InsertLoop(
                 [st EXCEPT !.Trie =
                    [c \in DOMAIN st.Trie \cup {key} |->
                       IF c = key
                       THEN createPathTrieNode(segments, idx, isLastSegment, val, sep)
                       ELSE st.Trie[c]]],
                 segments, idx + 1, val, merge, sep)

InsertMergeResult(t, sep, path, val, merge) ==
    InsertLoop([Trie |-> t, isNewPath |-> TRUE, calls |-> <<>>],
               Split(path, sep), 0, val, merge, sep)

\* An insertion.  ins records the call, what it returned and what it found:
\* whether the terminal node existed and its value then, whether the path
\* had been inserted before, and whether the call before it was an
\* InsertMerge of the same path.  res holds the query made on the trie as
\* it is; an insertion after a query would reach what it reaches without
\* the query, so a run is insertions and then at most one query.
DoInsert(opname, path, val, merge) ==
    LET segments == Split(path, PathSeparator)
        r == InsertMergeResult(Trie, PathSeparator, path, val, merge)
    IN  /\ nInserts < MaxInserts
        /\ res = NoOp
        /\ nInserts' = nInserts + 1
        /\ Trie' = r.Trie
        /\ ins' = [op |-> opname, path |-> path, val |-> val, merge |-> merge,
                   isNewPath |-> r.isNewPath, calls |-> r.calls,
                   existed |-> segments \in DOMAIN Trie,
                   before |-> IF segments \in DOMAIN Trie THEN Trie[segments].Value ELSE Nil,
                   seen |-> path \in inserted,
                   prevSame |-> ins.op = "InsertMerge" /\ ins.path = path]
        /\ inserted' = inserted \cup {path}
        /\ terminated' = terminated \cup {segments}
        /\ UNCHANGED <<PathSeparator, res>>

Insert(path, val) == DoInsert("Insert", path, val, "overwrite")

InsertMerge(path, val, merge) == DoInsert("InsertMerge", path, val, merge)

\* ------------------------------------------------------------- lookup

\* A nil *TrieNode; a node is referred to by its chain, which is never empty.
NoNode == <<>>

\* The keys of the map at the end of chain cur (the root map for <<>>), each
\* given as the chain of the node stored under it.
ChildKeys(t, cur) ==
    {c \in DOMAIN t : Len(c) = Len(cur) + 1 /\ SubSeq(c, 1, Len(cur)) = cur}

\* The orders in which a range over a map may visit its keys.
RECURSIVE Orders(_)
Orders(S) ==
    IF S = {} THEN {<<>>}
    ELSE UNION {{<<x>> \o o : o \in Orders(S \ {x})} : x \in S}

\* The lists built by appending, in order, one list of each set of ss.
RECURSIVE ConcatChoices(_)
ConcatChoices(ss) ==
    IF ss = <<>> THEN {<<>>}
    ELSE {h \o r : h \in Head(ss), r \in ConcatChoices(Tail(ss))}

\* isNameMatch without the parameter test.
isNameMatchLiteral(node, segment) == node.Name = segment

isNameMatch(node, segment) ==
    IF IsPathParam(node.Name) THEN TRUE
    ELSE IF node.Name = segment THEN TRUE
    ELSE FALSE

\* isFullPathMatch honoured for literal routes only.
isFullPathMatchLiteral(node, path) ==
    node.FullPath = path /\ node.PathParamCounter = 0

isFullPathMatch(node, path) == node.FullPath = path

\* Whether getMatchNodes on the map at the end of chain cur panics: it reads
\* segments[idx] for each node it visits, and descends below the nodes that
\* match before the last segment.
RECURSIVE getMatchNodesPanics(_, _, _, _)
getMatchNodesPanics(t, cur, segments, idx) ==
    IF ChildKeys(t, cur) = {} THEN FALSE
    ELSE IF idx >= Len(segments) THEN TRUE
    ELSE /\ idx # Len(segments) - 1
         /\ \E c \in ChildKeys(t, cur) :
               /\ isNameMatch(t[c], segments[idx + 1])
               /\ getMatchNodesPanics(t, c, segments, idx + 1)

\* The node lists getMatchNodes may return on the map at the end of chain
\* cur, one for each iteration order of the maps.  A node whose name does
\* not match is skipped wherever it comes, so the orders that tell are those
\* of the nodes that match.
RECURSIVE getMatchNodes(_, _, _, _)
getMatchNodes(t, cur, segments, idx) ==
    LET isLastSegment == idx = Len(segments) - 1
        matching == {c \in ChildKeys(t, cur) : isNameMatch(t[c], segments[idx + 1])}
        found(c) ==
            IF isLastSegment
            THEN IF t[c].Value # Nil THEN {<<c>>} ELSE {<<>>}
            ELSE getMatchNodes(t, c, segments, idx + 1)
    IN  UNION {ConcatChoices([i \in 1..Len(o) |-> found(o[i])]) : o \in Orders(matching)}

\* The loop of getMostAccurateNode with the comparison turned round.
RECURSIVE MostAccurateLoopGreater(_, _, _, _, _, _)
MostAccurateLoopGreater(t, nodes, i, path, retNode, minPathParamSegmentsCount) ==
    IF i > Len(nodes) THEN retNode
    ELSE IF t[nodes[i]].FullPath = path THEN nodes[i]
    ELSE IF t[nodes[i]].PathParamCounter > minPathParamSegmentsCount
         THEN MostAccurateLoopGreater(t, nodes, i + 1, path, nodes[i],
                                      t[nodes[i]].PathParamCounter)
         ELSE MostAccurateLoopGreater(t, nodes, i + 1, path, retNode,
                                      minPathParamSegmentsCount)

RECURSIVE MostAccurateLoop(_, _, _, _, _, _)
MostAccurateLoop(t, nodes, i, path, retNode, minPathParamSegmentsCount) ==
    IF i > Len(nodes) THEN retNode
    ELSE IF isFullPathMatch(t[nodes[i]], path) THEN nodes[i]
    ELSE IF t[nodes[i]].PathParamCounter < minPathParamSegmentsCount
         THEN MostAccurateLoop(t, nodes, i + 1, path, nodes[i], t[nodes[i]].PathParamCounter)
         ELSE MostAccurateLoop(t, nodes, i + 1, path, retNode, minPathParamSegmentsCount)

getMostAccurateNode(t, nodes, path, segmentsLen) ==
    MostAccurateLoop(t, nodes, 1, path, NoNode, segmentsLen + 1)

\* getNode, given the list nodes that getMatchNodes returned.
getNode(t, nodes, path, segments) ==
    IF Len(nodes) = 0 THEN NoNode
    ELSE IF Len(nodes) = 1 THEN nodes[1]
    ELSE getMostAccurateNode(t, nodes, path, Len(segments))

GetValue(t, node) ==
    IF node = NoNode THEN Nil ELSE t[node].Value

GetPathAndValue(t, node) ==
    IF node = NoNode
    THEN [fullPath |-> <<>>, value |-> Nil, found |-> FALSE]
    ELSE [fullPath |-> t[node].FullPath, value |-> t[node].Value, found |-> TRUE]

\* A call of GetValue / GetPathAndValue: one getNode, then what each of the
\* two returns for the node it got.
Lookup(path) ==
    LET segments == Split(path, PathSeparator)
    IN  /\ res = NoOp
        /\ IF getMatchNodesPanics(Trie, <<>>, segments, 0)
           THEN res' = [op |-> "Lookup", path |-> path, panic |-> TRUE,
                        node |-> NoNode, getValue |-> Nil,
                        getPathAndValue |-> GetPathAndValue(Trie, NoNode)]
           ELSE \E nodes \in getMatchNodes(Trie, <<>>, segments, 0) :
                  LET node == getNode(Trie, nodes, path, segments)
                  IN  res' = [op |-> "Lookup", path |-> path, panic |-> FALSE,
                              node |-> node, getValue |-> GetValue(Trie, node),
                              getPathAndValue |-> GetPathAndValue(Trie, node)]
        /\ UNCHANGED <<PathSeparator, Trie, ins, inserted, terminated, nInserts>>

\* ------------------------------------------------------------- enumeration

\* The lists getChildren may append for the node with chain c.
RECURSIVE getChildren(_, _)
getChildren(t, c) ==
    LET own == IF t[c].FullPath # <<>> THEN <<t[c].FullPath>> ELSE <<>>
        below(k) == IF k[Len(k)] # <<>> THEN getChildren(t, k) ELSE {<<>>}
    IN  {own \o r : r \in UNION {ConcatChoices([i \in 1..Len(o) |-> below(o[i])]) :
                                   o \in Orders(ChildKeys(t, c))}}

\* The slices GetChildren may return (pt.Trie is never nil after New).
GetChildrenLists(t) ==
    UNION {ConcatChoices([i \in 1..Len(o) |-> getChildren(t, o[i])]) :
             o \in Orders(ChildKeys(t, <<>>))}

GetChildren ==
    /\ res = NoOp
    /\ \E children \in GetChildrenLists(Trie) :
         res' = [op |-> "GetChildren", children |-> children]
    /\ UNCHANGED <<PathSeparator, Trie, ins, inserted, terminated, nInserts>>

NewWithPathSeparator(pathSeparator) ==
    /\ PathSeparator = pathSeparator
    /\ Trie = <<>>

New == NewWithPathSeparator(<<"/">>)

Init ==
    /\ \/ New
       \/ \E pathSeparator \in Separators : NewWithPathSeparator(pathSeparator)
    /\ ins = NoOp
    /\ res = NoOp
    /\ inserted = {}
    /\ terminated = {}
    /\ nInserts = 0

Next ==
    \/ \E p \in InsertPaths, v \in Values : Insert(p, v)
    \/ \E p \in InsertPaths, v \in Values, m \in MergeFns : InsertMerge(p, v, m)
    \/ \E p \in LookupPaths : Lookup(p)
    \/ GetChildren

Spec == Init /\ [][Next]_vars

\* ------------------------------------------------------------- properties

\* The segments of a path under the trie's separator.
Segs(path) == Split(path, PathSeparator)

\* The names on the chain of node c, root first.
ChainNames(c) == [i \in 1..Len(c) |-> Trie[SubSeq(c, 1, i)].Name]

\* The valued nodes at the depth of the segments whose names, root to node,
\* each equal the segment at their depth or are parameters.
MatchSet(path) ==
    LET segs == Segs(path)
    IN  {c \in DOMAIN Trie :
            /\ Len(c) = Len(segs)
            /\ Trie[c].Value # Nil
            /\ \A i \in 1..Len(c) :
                  \/ IsPathParam(Trie[SubSeq(c, 1, i)].Name)
                  \/ Trie[SubSeq(c, 1, i)].Name = segs[i]}

LookupAfterInsert ==
    /\ ins.op = "Insert"
    /\ res.op = "Lookup"
    /\ res.path = ins.path

RoundTrips ==
    /\ ~res.panic
    /\ res.getValue = ins.val
    /\ res.getPathAndValue.fullPath = ins.path
    /\ res.getPathAndValue.found

\* C1 as stated: a lookup of P right after Insert(P, V) returns V, with
\* fullPath P and found = true, for any separator, path and value.
C1_RoundTripAnyValue == LookupAfterInsert => RoundTrips

\* C1, amended: a lookup of P right after Insert(P, V) returns V, with
\* fullPath P and found = true, for any non-nil V and any P that splits
\* into at least one segment, whatever other routes match P.
C1_RoundTrip ==
    (LookupAfterInsert /\ ins.val # Nil /\ Segs(ins.path) # <<>>) => RoundTrips

C1_Witness ==
    /\ LookupAfterInsert
    /\ ins.val # Nil
    /\ Cardinality(MatchSet(res.path)) >= 2
    /\ res.getValue = ins.val

\* C2 as stated: GetChildren returns exactly as many strings as distinct
\* paths were inserted, and as a set they are the inserted paths.
C2_EnumerationComplete ==
    res.op = "GetChildren" =>
        /\ Len(res.children) = Cardinality(inserted)
        /\ {res.children[i] : i \in 1..Len(res.children)} = inserted

\* C3 as stated: Insert(P, V) returns true exactly when no earlier
\* insertion terminated at P.
C3_NewPathFlagAnyValue ==
    ins.op = "Insert" => (ins.isNewPath <=> ~ins.seen)

\* C3, amended: Insert(P, V) returns true when no earlier insertion
\* terminated at P, and a later Insert of P returns false exactly when the
\* value then stored at P is non-nil.
C3_NewPathFlag ==
    ins.op = "Insert" =>
        /\ ~ins.seen => ins.isNewPath
        /\ ins.seen => (ins.isNewPath <=> ins.before = Nil)

C3_Witness ==
    /\ ins.op = "Insert"
    /\ ins.seen
    /\ ins.before # Nil
    /\ ~ins.isNewPath

\* Two or more valued nodes match the lookup and none is the exact path.
Ambiguous ==
    /\ res.op = "Lookup"
    /\ ~res.panic
    /\ Cardinality(MatchSet(res.path)) >= 2
    /\ \A c \in MatchSet(res.path) : Trie[c].FullPath # res.path

\* C4: when two or more valued nodes match a lookup and none of them is the
\* exact path, the node returned is a candidate whose paramCount is at most
\* that of every other candidate, whatever the iteration order.
C4_Specificity ==
    (res.op = "Lookup" /\ ~res.panic) =>
        LET candidates == MatchSet(res.path)
        IN  (/\ Cardinality(candidates) >= 2
             /\ \A c \in candidates : Trie[c].FullPath # res.path)
            => /\ res.node \in candidates
               /\ \A c \in candidates :
                     Trie[res.node].PathParamCounter <= Trie[c].PathParamCounter

C4_Witness ==
    /\ Ambiguous
    /\ res.node \in MatchSet(res.path)
    /\ \E c \in MatchSet(res.path) :
          Trie[res.node].PathParamCounter < Trie[c].PathParamCounter

\* A valued node whose fullPath is the lookup string exists.
ExactExists ==
    /\ res.op = "Lookup"
    /\ ~res.panic
    /\ \E c \in DOMAIN Trie : Trie[c].Value # Nil /\ Trie[c].FullPath = res.path

\* C5: when a valued node whose fullPath equals the lookup string exists,
\* the lookup returns that node, whatever the other candidates, their
\* paramCount and the iteration order.
C5_ExactMatchWins ==
    ExactExists =>
        /\ res.node # NoNode
        /\ Trie[res.node].FullPath = res.path
        /\ res.getPathAndValue.fullPath = res.path

C5_Witness ==
    /\ ExactExists
    /\ res.node # NoNode
    /\ \E c \in MatchSet(res.path) :
          /\ c # res.node
          /\ Trie[c].PathParamCounter <= Trie[res.node].PathParamCounter

\* What InsertMerge does at an existing terminal node: one call of mergeFn
\* on (existing value, V), whose result is the node's value.
MergedOnce ==
    ins.existed =>
        /\ ins.calls = <<<<ins.before, ins.val>>>>
        /\ Trie[Segs(ins.path)].Value = MergeApply(ins.merge, ins.before, ins.val)

\* C6 as stated: InsertMerge at an existing terminal node calls mergeFn once
\* on (existing, V) and keeps its result; the second of two InsertMerge
\* calls on a path returns false; at a missing terminal node mergeFn is not
\* called and V is stored.
C6_MergeAnyValue ==
    ins.op = "InsertMerge" =>
        /\ MergedOnce
        /\ ins.prevSame => ~ins.isNewPath
        /\ ~ins.existed =>
              /\ ins.calls = <<>>
              /\ Segs(ins.path) \in DOMAIN Trie
              /\ Trie[Segs(ins.path)].Value = ins.val

\* C6, amended: as stated, but the second of two InsertMerge calls on a
\* path returns false exactly when the first left a non-nil value, and V is
\* stored at a missing terminal node when the path has at least one segment.
C6_Merge ==
    ins.op = "InsertMerge" =>
        /\ MergedOnce
        /\ ins.prevSame => (ins.isNewPath <=> ins.before = Nil)
        /\ ~ins.existed =>
              /\ ins.calls = <<>>
              /\ Segs(ins.path) # <<>> =>
                    /\ Segs(ins.path) \in DOMAIN Trie
                    /\ Trie[Segs(ins.path)].Value = ins.val

C6_Witness ==
    /\ ins.op = "InsertMerge"
    /\ ins.prevSame
    /\ ins.existed
    /\ ins.before # Nil
    /\ ins.val # Nil
    /\ ~ins.isNewPath
    /\ Trie[Segs(ins.path)].Value = ins.before * 10 + ins.val

\* C7 as stated: a lookup that no stored valued route matches does not
\* panic; GetValue returns nil and GetPathAndValue returns ("", nil, false).
C7_AbsenceWithoutFailure ==
    (res.op = "Lookup" /\ MatchSet(res.path) = {}) =>
        /\ ~res.panic
        /\ res.getValue = Nil
        /\ res.getPathAndValue = [fullPath |-> <<>>, value |-> Nil, found |-> FALSE]

\* C8: a lookup finds a node exactly when some valued node at the depth of
\* the lookup's segments has root-to-node names that each equal the segment
\* at their depth or are parameters, and the node returned is such a node.
C8_MatchCompleteness ==
    res.op = "Lookup" =>
        LET candidates == MatchSet(res.path)
        IN  /\ res.getPathAndValue.found <=> candidates # {}
            /\ res.getPathAndValue.found => res.node \in candidates

\* A literal root node matches the first segment, and the node found lies
\* under a parameter sibling of it.
C8_Witness ==
    /\ res.op = "Lookup"
    /\ res.getPathAndValue.found
    /\ Len(Segs(res.path)) >= 2
    /\ <<Segs(res.path)[1]>> \in DOMAIN Trie
    /\ ~IsPathParam(Segs(res.path)[1])
    /\ IsPathParam(res.node[1])

PositionMetadata ==
    \A c \in DOMAIN Trie :
        /\ \A i \in 1..Len(c) : SubSeq(c, 1, i) \in DOMAIN Trie
        /\ Trie[c].Name = c[Len(c)]
        /\ Trie[c].FullPath = Join(ChainNames(c), PathSeparator)
        /\ Trie[c].PathParamCounter =
              Cardinality({i \in 1..Len(c) : IsPathParam(ChainNames(c)[i])})

\* No step removes a node or changes its name, fullPath or paramCount.
PositionKept ==
    \A c \in DOMAIN Trie :
        /\ c \in DOMAIN Trie'
        /\ Trie'[c].Name = Trie[c].Name
        /\ Trie'[c].FullPath = Trie[c].FullPath
        /\ Trie'[c].PathParamCounter = Trie[c].PathParamCounter

\* C10: every node is stored under its name, has the separator-joined names
\* of its chain as fullPath and the number of parameter names on the chain
\* as paramCount, and no later insertion changes these or removes a node.
C10_PositionMetadata == []PositionMetadata /\ [][PositionKept]_vars

C10_Witness ==
    /\ nInserts >= 2
    /\ \E c \in DOMAIN Trie :
          /\ Len(c) >= 2
          /\ Trie[c].PathParamCounter >= 1
          /\ ~IsPathParam(Trie[c].Name)
====
